---------------------------- MODULE Spec2Model ----------------------------
(***************************************************************************)
(* A model of the AI-podcaster core: the response parser and script        *)
(* validator of src/src/podcast/script_generator.py, the per-turn          *)
(* synthesis loop, the text pre-cleaning and the audio assembler of        *)
(* src/src/podcast/text_to_speech.py, the content source of                *)
(* src/src/web_scraping/web_scraper.py with its caller add_url_source, and *)
(* the pipeline of generate_podcast in src/app.py.                         *)
(*                                                                         *)
(* Python strings are sequences of one-character strings, so that strip(), *)
(* lower(), startswith(), endswith(), in and slicing are computed as the *)
(* code computes them.  Audio buffers are sequences of samples.            *)
(***************************************************************************)
EXTENDS Integers, Sequences, FiniteSets, TLC

VARIABLES
    \* PodcastScriptGenerator.generate_script_from_text
    response,         \* raw text returned by self.llm.call(prompt)
    payload,          \* the JSON value that the document text in response denotes
    pc,               \* position inside generate_script_from_text
    path,             \* "direct" (try body) or "fenced" (JSONDecodeError handler)
    script_arg,       \* the script argument of _validate_and_clean_script
    idx,              \* number of items of script_arg the for loop has consumed
    cleaned_script,   \* local cleaned_script of _validate_and_clean_script
    expected_speaker, \* local expected_speaker (the alternation cursor)
    err,              \* the exception that left generate_script_from_text, or NoExc
    podcast_script,   \* the PodcastScript returned, or NoScript
    \* PodcastTTSGenerator.generate_podcast_audio
    tts_pc,           \* position inside generate_podcast_audio
    tts_script,       \* podcast_script.script, the turns to synthesize
    sample_rate,      \* self.sample_rate
    combine_audio,    \* the combine_audio argument
    i,                \* number of turns the for loop has attempted
    attempts,         \* what the engine and the file system answered per turn
    audio_segments,   \* local audio_segments
    output_files,     \* local output_files (the value returned)
    disk,             \* the files of output_dir: name -> samples written
    tts_err,          \* the exception that left generate_podcast_audio, or NoExc
    \* PodcastTTSGenerator._clean_text_for_tts
    tts_text,         \* the text argument
    clean_text,       \* the value returned, or NotCleaned
    \* add_url_source and WebScraper.scrape_url
    web_scraper,      \* whether st.session_state.web_scraper is set
    url,              \* the url argument
    scrape_pc,        \* position inside add_url_source
    scrape_result,    \* the dict scrape_url returned, or NoResult
    scrape_err,       \* the exception that left scrape_url, or NoExc
    sources,          \* st.session_state.sources
    \* generate_podcast (app.py)
    script_generator, \* whether st.session_state.script_generator is set
    tts_generator,    \* whether st.session_state.tts_generator is set
    pipe_pc           \* position inside generate_podcast

genVars == <<response, payload, pc, path, script_arg, idx, cleaned_script,
             expected_speaker, err, podcast_script>>

ttsVars == <<tts_pc, tts_script, sample_rate, combine_audio, i, attempts,
             audio_segments, output_files, disk, tts_err>>

cleanVars == <<tts_text, clean_text>>

scrapeVars == <<web_scraper, url, scrape_pc, scrape_result, scrape_err, sources>>

pipeVars == <<script_generator, tts_generator, pipe_pc>>

\* The variables outside script generation, and outside audio generation.
notGenVars == <<ttsVars, cleanVars, scrapeVars, pipeVars>>

notTtsVars == <<genVars, cleanVars, scrapeVars, pipeVars>>

vars == <<genVars, ttsVars, cleanVars, scrapeVars, pipeVars>>

-----------------------------------------------------------------------------
(* Bounds of the model.                                                    *)

\* Longest 'script' array a response holds.
MaxItems == 3

\* Longest script handed to generate_podcast_audio.
MaxTurns == 3

-----------------------------------------------------------------------------
(* Python str primitives on sequences of characters.                       *)

Whitespace == {" ", "\n", "\t"}

RECURSIVE LStrip(_)
LStrip(s) ==
    IF s # <<>> /\ Head(s) \in Whitespace THEN LStrip(Tail(s)) ELSE s

RECURSIVE RStrip(_)
RStrip(s) ==
    IF s # <<>> /\ s[Len(s)] \in Whitespace
    THEN RStrip(SubSeq(s, 1, Len(s) - 1))
    ELSE s

\* str.strip()
Strip(s) == RStrip(LStrip(s))

UpperLetters ==
    <<"A","B","C","D","E","F","G","H","I","J","K","L","M",
      "N","O","P","Q","R","S","T","U","V","W","X","Y","Z">>

LowerLetters ==
    <<"a","b","c","d","e","f","g","h","i","j","k","l","m",
      "n","o","p","q","r","s","t","u","v","w","x","y","z">>

LowerChar(c) ==
    IF \E k \in 1..26 : UpperLetters[k] = c
    THEN LowerLetters[CHOOSE k \in 1..26 : UpperLetters[k] = c]
    ELSE c

\* str.lower()
Lower(s) == [k \in 1..Len(s) |-> LowerChar(s[k])]

\* sub in s
Contains(sub, s) ==
    \E k \in 1..(Len(s) - Len(sub) + 1) : SubSeq(s, k, k + Len(sub) - 1) = sub

\* s.startswith(prefix)
StartsWith(s, prefix) ==
    Len(s) >= Len(prefix) /\ SubSeq(s, 1, Len(prefix)) = prefix

\* s.endswith(('.', '!', '?'))
EndsWithTerminal(s) == s # <<>> /\ s[Len(s)] \in {".", "!", "?"}

\* s[a:-b] for a, b >= 0 (b > 0): drops the first a and the last b characters
Slice(s, a, b) == SubSeq(s, a + 1, Len(s) - b)

-----------------------------------------------------------------------------
(* Speaker labels and the values a decoded response can hold.              *)

Speaker1 == <<"S", "p", "e", "a", "k", "e", "r", " ", "1">>

Speaker2 == <<"S", "p", "e", "a", "k", "e", "r", " ", "2">>

\* One element of the decoded 'script' value.  kind "dict" is a JSON object
\* with size keys (speaker/dialogue are its first pair); dtype is the JSON
\* type of the value ("str", or "num" for a value without .strip()).
\* kind "other" is any element that is not a JSON object.
Item(kind, size, speaker, dtype, dialogue) ==
    [kind |-> kind, size |-> size, speaker |-> speaker, dtype |-> dtype,
     dialogue |-> dialogue]

Turn(speaker, dialogue) == Item("dict", 1, speaker, "str", dialogue)

NotADict == Item("other", 0, <<>>, "str", <<>>)

TwoKeyDict == Item("dict", 2, Speaker1, "str", <<"h", "i">>)

NumberTurn == Item("dict", 1, Speaker1, "num", <<>>)

\* The records the model draws candidate sequences from.
Items ==
    { Turn(Speaker1, <<"h", "i">>),
      Turn(Speaker2, <<"h", "i">>),
      Turn(Speaker1, <<"h", "e", "l", "l", "o", " ", "t", "h", "e", "r", "e">>),
      Turn(<<"S", "p", "e", "a", "k", "e", "r", "X">>, <<"f", "o", "o">>),
      Turn(<<"H", "o", "s", "t">>, <<" ", "o", "k", "!", " ">>),
      Turn(<<"H", "o", "s", "t">>, <<" ", "\n">>),
      Turn(<<"H", "o", "s", "t", " ", "1">>, <<"w", "h", "y", "?">>),
      Turn(<<"s", "p", "e", "a", "k", "e", "r", " ", "T", "W", "O">>, <<"a", ".", "b">>),
      Turn(<<" ", "S", "p", "e", "a", "k", "e", "r", " ", "2", " ">>, <<>>),
      NotADict,
      TwoKeyDict,
      NumberTurn }

-----------------------------------------------------------------------------
(* _validate_and_clean_script: the loop body and the loop.                 *)

\* NormalizeSpeaker with the cursor deciding every label, exact or not.
NormalizeSpeaker_CursorDecides(raw, expected) == expected

\* Lines 166-174: strip the key, keep an exact label, otherwise the fuzzy
\* fallback and last the alternation cursor.
NormalizeSpeaker(raw, expected) ==
    LET speaker == Strip(raw)
    IN  IF speaker \in {Speaker1, Speaker2} THEN speaker
        ELSE IF Contains(<<"1">>, speaker)
                \/ Contains(<<"o", "n", "e">>, Lower(speaker)) THEN Speaker1
        ELSE IF Contains(<<"2">>, speaker)
                \/ Contains(<<"t", "w", "o">>, Lower(speaker)) THEN Speaker2
        ELSE expected

\* Punctuate appending a '.' to every dialogue.
Punctuate_Always(dialogue) == Append(dialogue, ".")

\* Lines 179-180: dialogue += '.' unless it ends in a terminal mark.
Punctuate(dialogue) ==
    IF EndsWithTerminal(dialogue) THEN dialogue ELSE Append(dialogue, ".")

\* Line 184.
FlipSpeaker(expected) == IF expected = Speaker1 THEN Speaker2 ELSE Speaker1

NoExc == "none"

\* The locals of the loop: cleaned_script, expected_speaker, and the
\* exception raised inside the body (NoExc while none was).
LoopStart == [cleaned |-> <<>>, expected |-> Speaker1, exc |-> NoExc]

\* ValidateItem flipping the cursor for a record dropped as empty too.
ValidateItem_FlipOnDrop(st, item) ==
    IF item.kind # "dict" \/ item.size # 1 THEN st
    ELSE LET speaker == NormalizeSpeaker(item.speaker, st.expected)
         IN  IF item.dtype # "str"
             THEN [st EXCEPT !.exc = "AttributeError"]
             ELSE LET dialogue == Strip(item.dialogue)
                  IN  IF dialogue = <<>>
                      THEN [st EXCEPT !.expected = FlipSpeaker(st.expected)]
                      ELSE [cleaned  |-> Append(st.cleaned,
                                               [speaker  |-> speaker,
                                                dialogue |-> Punctuate(dialogue)]),
                            expected |-> FlipSpeaker(st.expected),
                            exc      |-> NoExc]

\* ValidateItem failing the script for a record that is not one pair.
ValidateItem_FailOnMalformed(st, item) ==
    IF item.kind # "dict" \/ item.size # 1
    THEN [st EXCEPT !.exc = "ValueError"]
    ELSE LET speaker == NormalizeSpeaker(item.speaker, st.expected)
         IN  IF item.dtype # "str"
             THEN [st EXCEPT !.exc = "AttributeError"]
             ELSE LET dialogue == Strip(item.dialogue)
                  IN  IF dialogue = <<>> THEN st
                      ELSE [cleaned  |-> Append(st.cleaned,
                                               [speaker  |-> speaker,
                                                dialogue |-> Punctuate(dialogue)]),
                            expected |-> FlipSpeaker(st.expected),
                            exc      |-> NoExc]

\* ValidateItem setting the cursor to the other speaker than the one kept.
ValidateItem_FollowSpeaker(st, item) ==
    IF item.kind # "dict" \/ item.size # 1 THEN st
    ELSE LET speaker == NormalizeSpeaker(item.speaker, st.expected)
         IN  IF item.dtype # "str"
             THEN [st EXCEPT !.exc = "AttributeError"]
             ELSE LET dialogue == Strip(item.dialogue)
                  IN  IF dialogue = <<>> THEN st
                      ELSE [cleaned  |-> Append(st.cleaned,
                                               [speaker  |-> speaker,
                                                dialogue |-> Punctuate(dialogue)]),
                            expected |-> FlipSpeaker(speaker),
                            exc      |-> NoExc]

\* ValidateItem without the check for an empty dialogue.
ValidateItem_KeepEmpty(st, item) ==
    IF item.kind # "dict" \/ item.size # 1 THEN st
    ELSE LET speaker == NormalizeSpeaker(item.speaker, st.expected)
         IN  IF item.dtype # "str"
             THEN [st EXCEPT !.exc = "AttributeError"]
             ELSE LET dialogue == Strip(item.dialogue)
                  IN  [cleaned  |-> Append(st.cleaned,
                                           [speaker  |-> speaker,
                                            dialogue |-> Punctuate(dialogue)]),
                       expected |-> FlipSpeaker(st.expected),
                       exc      |-> NoExc]

\* Lines 162-184: one iteration of for item in script on the locals st.
ValidateItem(st, item) ==
    IF item.kind # "dict" \/ item.size # 1 THEN st
    ELSE LET speaker == NormalizeSpeaker(item.speaker, st.expected)
         IN  IF item.dtype # "str"
             THEN [st EXCEPT !.exc = "AttributeError"]
             ELSE LET dialogue == Strip(item.dialogue)
                  IN  IF dialogue = <<>> THEN st
                      ELSE [cleaned  |-> Append(st.cleaned,
                                               [speaker  |-> speaker,
                                                dialogue |-> Punctuate(dialogue)]),
                            expected |-> FlipSpeaker(st.expected),
                            exc      |-> NoExc]

\* Lines 159-184: the locals after the first k iterations (an exception
\* ends the loop).
RECURSIVE ValidateLoop(_, _)
ValidateLoop(script, k) ==
    IF k = 0 THEN LoopStart
    ELSE LET st == ValidateLoop(script, k - 1)
         IN  IF st.exc # NoExc THEN st ELSE ValidateItem(st, script[k])

ErrTooShort == "ValueError: Generated script is too short or invalid"

ErrInvalidFormat == "ValueError: Invalid script format returned by LLM"

ErrCouldNotParse == "ValueError: Could not parse LLM response as valid JSON"

\* Line 186: the minimum number of turns a script must keep.
MinTurns == 2

\* Lines 186-189: what the call raises after the loop (NoExc: it returns).
LengthCheck(cleaned) == IF Len(cleaned) < MinTurns THEN ErrTooShort ELSE NoExc

-----------------------------------------------------------------------------
(* The decoded response and its text.                                      *)

\* A JSON value as the parser looks at it: its top-level type, whether
\* 'script' in value holds, the type of value['script'] and the elements
\* that iterating value['script'] yields.
Json(top, has_script, script_type, script) ==
    [top |-> top, has_script |-> has_script, script_type |-> script_type,
     script |-> script]

RECURSIVE SeqsUpTo(_, _)
SeqsUpTo(S, n) ==
    IF n = 0 THEN {<<>>}
    ELSE LET shorter == SeqsUpTo(S, n - 1)
         IN  shorter \cup {Append(s, x) : s \in {q \in shorter : Len(q) = n - 1},
                                          x \in S}

\* {"script": [ ... ]} with up to MaxItems elements.
ScriptObjects == {Json("object", TRUE, "list", s) : s \in SeqsUpTo(Items, MaxItems)}

\* Decodable values of another shape: {"lines": []}, {"script": "ab"},
\* {"script": {"Speaker 1": "hi"}}, {"script": 5}, [], ["script"],
\* "no turns", "a script", 42.
OtherValues ==
    { Json("object", FALSE, "none", <<>>),
      Json("object", TRUE, "str", <<NotADict, NotADict>>),
      Json("object", TRUE, "dict", <<NotADict>>),
      Json("object", TRUE, "num", <<>>),
      Json("list", FALSE, "none", <<>>),
      Json("list", TRUE, "none", <<>>),
      Json("string", FALSE, "none", <<>>),
      Json("string", TRUE, "none", <<>>),
      Json("number", FALSE, "none", <<>>) }

Payloads == ScriptObjects \cup OtherValues

\* The text of a JSON document; "#" stands for the characters between its
\* delimiters.
DocText(v) ==
    CASE v.top = "object" -> <<"{", "#", "}">>
      [] v.top = "list"   -> <<"[", "#", "]">>
      [] v.top = "string" -> <<"\"", "#", "\"">>
      [] OTHER            -> <<"4", "2">>

\* The backquote character (written as a name: the character itself cannot
\* stand inside a string of this language).
Backquote == "bq"

\* The three-backquote fence marker, bare and tagged json.
Fence == <<Backquote, Backquote, Backquote>>

JsonFence == Fence \o <<"j", "s", "o", "n">>

\* The ways a model wraps the document in its response.
Framings ==
    {"bare", "json_fence", "plain_fence", "padded_json_fence", "open_fence",
     "double_fence", "prose"}

Frame(f, doc) ==
    CASE f = "bare"              -> doc
      [] f = "json_fence"        -> JsonFence \o <<"\n">> \o doc \o <<"\n">> \o Fence
      [] f = "plain_fence"       -> Fence \o <<"\n">> \o doc \o <<"\n">> \o Fence
      [] f = "padded_json_fence" -> <<" ", "\n">> \o JsonFence \o <<"\n">> \o doc
                                    \o <<"\n">> \o Fence \o <<"\n">>
      [] f = "open_fence"        -> JsonFence \o <<"\n">> \o doc
      [] f = "double_fence"      -> JsonFence \o <<"\n">> \o JsonFence \o <<"\n">> \o doc
                                    \o <<"\n">> \o Fence \o <<"\n">> \o Fence
      [] OTHER                   -> <<"S", "u", "r", "e", ":", " ">> \o doc

\* json.loads(text), for a response whose document denotes v: the text must
\* be the document, surrounded by whitespace at most.
JsonLoads(text, v) ==
    IF Strip(text) = DocText(v) THEN "ok" ELSE "JSONDecodeError"

\* Lines 141-145.
StripFences(text) ==
    LET response_clean == Strip(text)
    IN  IF StartsWith(response_clean, JsonFence) THEN Slice(response_clean, 7, 3)
        ELSE IF StartsWith(response_clean, Fence) THEN Slice(response_clean, 3, 3)
        ELSE response_clean

\* Lines 132-133: what the format check of the try body raises.
DirectCheck(v) ==
    CASE v.top = "number"        -> "TypeError"
      [] ~v.has_script           -> ErrInvalidFormat
      [] v.top # "object"        -> "TypeError"
      [] v.script_type # "list"  -> ErrInvalidFormat
      [] OTHER                   -> NoExc

\* Line 149 (and line 161 for a value that cannot be iterated): what
\* script_data['script'] raises in the handler, which has no format check.
FallbackCheck(v) ==
    CASE v.top # "object"       -> "TypeError"
      [] ~v.has_script          -> "KeyError"
      [] v.script_type = "num"  -> "TypeError"
      [] OTHER                  -> NoExc

\* Lines 151-156: the exception that leaves _generate_conversation_script
\* when exc is raised on the given path.
Surface(p, exc) == IF p = "fenced" THEN ErrCouldNotParse ELSE exc

-----------------------------------------------------------------------------
(* generate_script_from_text and _generate_conversation_script.            *)

NoScript == [script |-> <<>>, source_document |-> "", total_lines |-> 0 - 1,
             estimated_duration |-> ""]

\* The state in which generate_podcast_audio has not been called.
TtsIdle ==
    /\ tts_pc = "idle"
    /\ tts_script = <<>>
    /\ sample_rate = 0
    /\ combine_audio = FALSE
    /\ i = 0
    /\ attempts = <<>>
    /\ audio_segments = <<>>
    /\ output_files = <<>>
    /\ disk = {}
    /\ tts_err = NoExc

NotCleaned == <<"<", "n", "o", "n", "e", ">">>

\* The state in which _clean_text_for_tts has not been called.
CleanIdle ==
    /\ tts_text = <<>>
    /\ clean_text = NotCleaned

\* The value of result before scrape_url has returned.
NoResult == [success |-> FALSE, content |-> <<>>, title |-> <<>>,
             word_count |-> 0, has_error |-> FALSE]

\* The state in which add_url_source has not been called.
ScrapeIdle ==
    /\ web_scraper = FALSE
    /\ url = <<>>
    /\ scrape_pc = "idle"
    /\ scrape_result = NoResult
    /\ scrape_err = NoExc
    /\ sources = <<>>

\* The state in which generate_podcast has not been called, in a session
\* that initialize_generators has set up.
PipeIdle ==
    /\ script_generator = TRUE
    /\ tts_generator = TRUE
    /\ pipe_pc = "idle"

\* The call of generate_script_from_text; the model's answer is any framing
\* of any document.
Init ==
    /\ payload \in Payloads
    /\ response \in {Frame(f, DocText(payload)) : f \in Framings}
    /\ pc = "start"
    /\ path = "direct"
    /\ script_arg = <<>>
    /\ idx = 0
    /\ cleaned_script = <<>>
    /\ expected_speaker = Speaker1
    /\ err = NoExc
    /\ podcast_script = NoScript
    /\ TtsIdle
    /\ CleanIdle
    /\ ScrapeIdle
    /\ PipeIdle

\* Entering _validate_and_clean_script(script) on path p (lines 159-160).
EnterValidate(p, script) ==
    /\ pc' = "validate"
    /\ path' = p
    /\ script_arg' = script
    /\ idx' = 0
    /\ cleaned_script' = LoopStart.cleaned
    /\ expected_speaker' = LoopStart.expected
    /\ err' = NoExc

\* The exception exc leaves _generate_conversation_script from path p.
Raise(p, exc) ==
    /\ pc' = "failed"
    /\ err' = Surface(p, exc)

\* Lines 129-135: the try body up to the call of the validator.
Decode ==
    /\ pc = "start"
    /\ IF JsonLoads(response, payload) # "ok"
       THEN /\ pc' = "fallback"
            /\ UNCHANGED <<path, script_arg, idx, cleaned_script,
                           expected_speaker, err>>
       ELSE IF DirectCheck(payload) # NoExc
       THEN /\ Raise("direct", DirectCheck(payload))
            /\ UNCHANGED <<path, script_arg, idx, cleaned_script,
                           expected_speaker>>
       ELSE EnterValidate("direct", payload.script)
    /\ UNCHANGED <<response, payload, podcast_script>>
    /\ UNCHANGED notGenVars

\* Lines 139-149: the JSONDecodeError handler up to the call of the validator.
Fallback ==
    /\ pc = "fallback"
    /\ IF JsonLoads(StripFences(response), payload) # "ok"
       THEN /\ Raise("fenced", "JSONDecodeError")
            /\ path' = "fenced"
            /\ UNCHANGED <<script_arg, idx, cleaned_script, expected_speaker>>
       ELSE IF FallbackCheck(payload) # NoExc
       THEN /\ Raise("fenced", FallbackCheck(payload))
            /\ path' = "fenced"
            /\ UNCHANGED <<script_arg, idx, cleaned_script, expected_speaker>>
       ELSE EnterValidate("fenced", payload.script)
    /\ UNCHANGED <<response, payload, podcast_script>>
    /\ UNCHANGED notGenVars

\* Lines 161-184: one iteration of the validator's loop.
ValidateStep ==
    /\ pc = "validate"
    /\ idx < Len(script_arg)
    /\ LET st == ValidateItem([cleaned  |-> cleaned_script,
                               expected |-> expected_speaker,
                               exc      |-> NoExc],
                              script_arg[idx + 1])
       IN  /\ idx' = idx + 1
           /\ cleaned_script' = st.cleaned
           /\ expected_speaker' = st.expected
           /\ IF st.exc # NoExc
              THEN Raise(path, st.exc)
              ELSE UNCHANGED <<pc, err>>
    /\ UNCHANGED <<response, payload, path, script_arg, podcast_script>>
    /\ UNCHANGED notGenVars

\* Lines 186-189, then 137 or 150: the length check and the return.
ValidateReturn ==
    /\ pc = "validate"
    /\ idx = Len(script_arg)
    /\ IF LengthCheck(cleaned_script) # NoExc
       THEN Raise(path, LengthCheck(cleaned_script))
       ELSE /\ pc' = "validated"
            /\ UNCHANGED err
    /\ UNCHANGED <<response, payload, path, script_arg, idx, cleaned_script,
                   expected_speaker, podcast_script>>
    /\ UNCHANGED notGenVars

\* Lines 60-65: the PodcastScript built from the validated turns.
MakePodcastScript(script) ==
    [script |-> script, source_document |-> "Text Input",
     total_lines |-> Len(script), estimated_duration |-> "10 minutes"]

\* Lines 60-68.
BuildScript ==
    /\ pc = "validated"
    /\ pc' = "returned"
    /\ podcast_script' = MakePodcastScript(cleaned_script)
    /\ UNCHANGED <<response, payload, path, script_arg, idx, cleaned_script,
                   expected_speaker, err>>
    /\ UNCHANGED notGenVars

\* The outcome of a call: the turns returned, or the exception raised.
Returned(script) == [err |-> NoExc, script |-> script]

Failure(exc) == [err |-> exc, script |-> <<>>]

\* Lines 158-189 called from path p: the validator's result as it leaves
\* _generate_conversation_script.
ValidateOutcome(p, script) ==
    LET st == ValidateLoop(script, Len(script))
    IN  IF st.exc # NoExc THEN Failure(Surface(p, st.exc))
        ELSE IF LengthCheck(st.cleaned) # NoExc
        THEN Failure(Surface(p, LengthCheck(st.cleaned)))
        ELSE Returned(st.cleaned)

\* Lines 128-156 as a function of the response text (whose document
\* denotes v): the outcome of _generate_conversation_script.
ParseOutcome(text, v) ==
    IF JsonLoads(text, v) = "ok"
    THEN IF DirectCheck(v) # NoExc
         THEN Failure(Surface("direct", DirectCheck(v)))
         ELSE ValidateOutcome("direct", v.script)
    ELSE IF JsonLoads(StripFences(text), v) # "ok"
         THEN Failure(Surface("fenced", "JSONDecodeError"))
         ELSE IF FallbackCheck(v) # NoExc
         THEN Failure(Surface("fenced", FallbackCheck(v)))
         ELSE ValidateOutcome("fenced", v.script)

Next == Decode \/ Fallback \/ ValidateStep \/ ValidateReturn \/ BuildScript

Spec == Init /\ [][Next]_vars

-----------------------------------------------------------------------------
(* generate_podcast_audio: file names, buffers, the assembler.             *)

DigitChars == <<"0", "1", "2", "3", "4", "5", "6", "7", "8", "9">>

\* str(n) for n >= 0
RECURSIVE Decimal(_)
Decimal(n) ==
    IF n < 10 THEN <<DigitChars[n + 1]>>
    ELSE Append(Decimal(n \div 10), DigitChars[(n % 10) + 1])

\* Width of the segment number in a file name (line 83, the 03d format).
IndexWidth == 3

RECURSIVE ZeroPad(_, _)
ZeroPad(s, width) == IF Len(s) >= width THEN s ELSE ZeroPad(<<"0">> \o s, width)

\* speaker.replace(' ', '_').lower()
SpeakerSlug(speaker) ==
    Lower([k \in 1..Len(speaker) |-> IF speaker[k] = " " THEN "_" ELSE speaker[k]])

\* SegmentFilename numbering the turns from 0.
SegmentFilename_ZeroBased(n, speaker) ==
    <<"s", "e", "g", "m", "e", "n", "t", "_">> \o ZeroPad(Decimal(n), IndexWidth) \o <<"_">>
    \o SpeakerSlug(speaker) \o <<".", "w", "a", "v">>

\* Line 83: the file name of the segment of the turn at 0-based position n.
SegmentFilename(n, speaker) ==
    <<"s", "e", "g", "m", "e", "n", "t", "_">> \o ZeroPad(Decimal(n + 1), IndexWidth) \o <<"_">>
    \o SpeakerSlug(speaker) \o <<".", "w", "a", "v">>

\* Line 203.
CombinedFilename == <<"c", "o", "m", "p", "l", "e", "t", "e", "_", "p", "o", "d", "c", "a", "s", "t", ".", "w", "a", "v">>

\* np.concatenate(arrays) for a non-empty list of 1-d arrays.
RECURSIVE Concatenate(_)
Concatenate(arrays) ==
    IF arrays = <<>> THEN <<>> ELSE Head(arrays) \o Concatenate(Tail(arrays))

\* Lines 158-166: the buffer returned for the chunks the engine yielded;
\* np.concatenate([]) raises ValueError.
SingleSegment(chunks) ==
    IF Len(chunks) = 1 THEN [exc |-> NoExc, audio |-> chunks[1]]
    ELSE IF chunks = <<>>
    THEN [exc |-> "ValueError: need at least one array to concatenate",
          audio |-> <<>>]
    ELSE [exc |-> NoExc, audio |-> Concatenate(chunks)]

\* Lines 190-191: int(0.2 * sample_rate).  The double nearest 0.2 is
\* 0.2 * (1 + 2^-54), so the product rounds to sample_rate / 5 or just
\* above it and int() yields the floor of sample_rate / 5.
PauseSamples(rate) == (2 * rate) \div 10

\* Line 192: np.zeros(n)
Zeros(n) == [k \in 1..n |-> 0]

\* CombinedParts appending the pause after every segment, the last too.
RECURSIVE CombinedParts_TrailingPause(_, _, _)
CombinedParts_TrailingPause(segments, pause_audio, k) ==
    IF k = 0 THEN <<>>
    ELSE Append(Append(CombinedParts_TrailingPause(segments, pause_audio, k - 1),
                       segments[k].audio_data),
                pause_audio)

\* Lines 194-199: the list combined_audio after the loop has handled the
\* first k segments.
RECURSIVE CombinedParts(_, _, _)
CombinedParts(segments, pause_audio, k) ==
    IF k = 0 THEN <<>>
    ELSE LET before == Append(CombinedParts(segments, pause_audio, k - 1),
                              segments[k].audio_data)
         IN  IF k - 1 < Len(segments) - 1
             THEN Append(before, pause_audio)
             ELSE before

\* Lines 190-201: final_audio.
FinalAudio(segments, rate) ==
    Concatenate(CombinedParts(segments, Zeros(PauseSamples(rate)), Len(segments)))

\* sf.write(path, data, rate): the file holds data, replacing what it held.
WriteFile(files, name, data) ==
    {f \in files : f.name # name} \cup {[name |-> name, data |-> data]}

\* The default of the sample_rate parameter (line 43).
DefaultSampleRate == 24000

\* Sample rates of the model: small, so that a pause is a few samples.
SampleRates == {5, 12}

\* What the synthesis engine yields for one turn: an error, or chunks of
\* samples (none, one, several).
EngineAnswers ==
    { [ok |-> FALSE, chunks |-> <<>>],
      [ok |-> TRUE,  chunks |-> <<>>],
      [ok |-> TRUE,  chunks |-> << <<1, 0>> >>],
      [ok |-> TRUE,  chunks |-> << <<2>>, <<0, 3>> >>] }

\* The turns of a script handed to generate_podcast_audio.
ScriptTurns ==
    { [speaker |-> Speaker1, dialogue |-> <<"h", "i", ".">>],
      [speaker |-> Speaker2, dialogue |-> <<"w", "h", "y", "?">>] }

InitTTS ==
    /\ response = <<>>
    /\ payload = Json("object", TRUE, "list", <<>>)
    /\ pc = "returned"
    /\ path = "direct"
    /\ script_arg = <<>>
    /\ idx = 0
    /\ cleaned_script = <<>>
    /\ expected_speaker = Speaker1
    /\ err = NoExc
    /\ tts_script \in SeqsUpTo(ScriptTurns, MaxTurns)
    /\ podcast_script = MakePodcastScript(tts_script)
    /\ sample_rate \in SampleRates
    /\ combine_audio \in BOOLEAN
    /\ tts_pc = "loop"
    /\ i = 0
    /\ attempts = <<>>
    /\ audio_segments = <<>>
    /\ output_files = <<>>
    /\ disk = {}
    /\ tts_err = NoExc
    /\ CleanIdle
    /\ ScrapeIdle
    /\ PipeIdle

\* Lines 90-96 (duration is derived from audio_data and the sample rate).
MakeAudioSegment(speaker, dialogue, audio, file) ==
    [speaker |-> speaker, text |-> dialogue, audio_data |-> audio,
     file_path |-> file]

\* AfterFailure leaving the loop at the first failed turn.
AfterFailure_Abort(n) == Len(tts_script)

\* Lines 101-103: where the loop goes on after turn n failed.
AfterFailure(n) == n + 1

\* Lines 76-103: one iteration of the loop over the turns; answer is what
\* the engine yields and written whether sf.write of the segment succeeds.
SynthesizeTurn ==
    /\ tts_pc = "loop"
    /\ i < Len(tts_script)
    /\ \E answer \in EngineAnswers, written \in BOOLEAN :
         LET turn    == tts_script[i + 1]
             segment == IF answer.ok THEN SingleSegment(answer.chunks)
                        ELSE [exc |-> "SynthesisFailure", audio |-> <<>>]
             file    == SegmentFilename(i, turn.speaker)
         IN  IF segment.exc # NoExc
             THEN /\ ~written
                  /\ attempts' = Append(attempts, [outcome |-> "synthesis_failed",
                                                   audio   |-> <<>>])
                  /\ i' = AfterFailure(i)
                  /\ UNCHANGED <<audio_segments, output_files, disk>>
             ELSE IF ~written
             THEN /\ attempts' = Append(attempts, [outcome |-> "write_failed",
                                                   audio   |-> segment.audio])
                  /\ i' = AfterFailure(i)
                  /\ UNCHANGED <<audio_segments, output_files, disk>>
             ELSE /\ attempts' = Append(attempts, [outcome |-> "ok",
                                                   audio   |-> segment.audio])
                  /\ disk' = WriteFile(disk, file, segment.audio)
                  /\ output_files' = Append(output_files, file)
                  /\ audio_segments' =
                       IF combine_audio
                       THEN Append(audio_segments,
                                   MakeAudioSegment(turn.speaker, turn.dialogue,
                                                    segment.audio, file))
                       ELSE audio_segments
                  /\ i' = i + 1
    /\ UNCHANGED <<tts_pc, tts_script, sample_rate, combine_audio, tts_err>>
    /\ UNCHANGED notTtsVars

\* ShouldCombine without the test for an empty list of segments.
ShouldCombine_IgnoreEmpty(combine, segments) == combine

\* Line 105: whether the assembler is called.
ShouldCombine(combine, segments) == combine /\ segments # <<>>

\* The handler of a failed assembly deleting the files of the directory.
DiskAfterAssemblyFailure_Rollback(files) == {}

\* Lines 212-214: the files of the directory after the handler of a failed
\* assembly, which logs and raises again.
DiskAfterAssemblyFailure(files) == files

\* Lines 105-110 with _combine_audio_segments (lines 185-214): the combined
\* file is assembled and written, or that fails and the error is raised
\* again; without segments to combine the call returns at once.
FinishAudio ==
    /\ tts_pc = "loop"
    /\ i = Len(tts_script)
    /\ IF ShouldCombine(combine_audio, audio_segments)
       THEN \E written \in BOOLEAN :
              IF written
              THEN /\ disk' = WriteFile(disk, CombinedFilename,
                                        FinalAudio(audio_segments, sample_rate))
                   /\ output_files' = Append(output_files, CombinedFilename)
                   /\ tts_pc' = "returned"
                   /\ UNCHANGED tts_err
              ELSE /\ tts_pc' = "raised"
                   /\ tts_err' = "AssemblyFailure"
                   /\ disk' = DiskAfterAssemblyFailure(disk)
                   /\ UNCHANGED output_files
       ELSE /\ tts_pc' = "returned"
            /\ UNCHANGED <<disk, output_files, tts_err>>
    /\ UNCHANGED <<tts_script, sample_rate, combine_audio, i, attempts,
                   audio_segments>>
    /\ UNCHANGED notTtsVars

NextTTS == SynthesizeTurn \/ FinishAudio

SpecTTS == InitTTS /\ [][NextTTS]_vars

-----------------------------------------------------------------------------
(* Properties of the script validator.                                     *)

\* The items of script_arg the validator's loop has consumed so far.
Consumed == SubSeq(script_arg, 1, idx)

\* A record that is exactly one key/value pair.
WellFormed(item) == item.kind = "dict" /\ item.size = 1

\* A well-formed record whose dialogue is empty once trimmed.
EmptyAfterTrim(item) ==
    WellFormed(item) /\ item.dtype = "str" /\ Strip(item.dialogue) = <<>>

\* A record that is neither malformed nor empty: it yields a turn.
Survives(item) ==
    WellFormed(item) /\ item.dtype = "str" /\ Strip(item.dialogue) # <<>>

\* The consumed records that yield a turn, in order.
Survivors == SelectSeq(Consumed, Survives)

\* A label that is no exact speaker name and names neither one nor two.
Ambiguous(label) ==
    /\ Strip(label) \notin {Speaker1, Speaker2}
    /\ ~Contains(<<"1">>, label)
    /\ ~Contains(<<"2">>, label)
    /\ ~Contains(<<"o", "n", "e">>, Lower(label))
    /\ ~Contains(<<"t", "w", "o">>, Lower(label))

AllLabelsAmbiguous ==
    \A k \in 1..Len(Consumed) :
        WellFormed(Consumed[k]) => Ambiguous(Consumed[k].speaker)

\* The speaker at position j of a sequence alternating from Speaker 1.
AlternatingSpeaker(j) == IF j % 2 = 1 THEN Speaker1 ELSE Speaker2

\* C1: when every speaker label handed to the validator is ambiguous, the
\* turns kept so far are labelled Speaker 1, Speaker 2, Speaker 1, ... from
\* Speaker 1 on, whichever records were dropped in between.
C1_AlternationCursor ==
    AllLabelsAmbiguous =>
        \A j \in 1..Len(cleaned_script) :
            cleaned_script[j].speaker = AlternatingSpeaker(j)

\* C1 happens: the validator returned two turns from ambiguous labels with
\* a dropped record between them.
C1_Witness ==
    /\ pc = "validated"
    /\ AllLabelsAmbiguous
    /\ Len(script_arg) = 3
    /\ Survives(script_arg[1])
    /\ ~Survives(script_arg[2])
    /\ Survives(script_arg[3])
    /\ Len(cleaned_script) = 2

ScenarioInput ==
    <<Turn(Speaker2, <<"h", "i">>), Turn(Speaker1, <<"h", "e", "l", "l", "o", " ", "t", "h", "e", "r", "e">>)>>

\* C2 as stated: the candidate [{"Speaker 2": "hi"}, {"Speaker 1": "hello
\* there"}] is normalized to [{"Speaker 1": "hi."}, {"Speaker 2": "hello
\* there."}] and the script has total_lines = 2.
C2_ScenarioAsStated ==
    (pc = "returned" /\ script_arg = ScenarioInput) =>
        /\ podcast_script.script =
             << [speaker |-> Speaker1, dialogue |-> <<"h", "i", ".">>],
                [speaker |-> Speaker2, dialogue |-> <<"h", "e", "l", "l", "o", " ", "t", "h", "e", "r", "e", ".">>] >>
        /\ podcast_script.total_lines = 2

\* C2 as amended: the candidate [{"Speaker 2": "hi"}, {"Speaker 1": "hello
\* there"}] is normalized to [{"Speaker 2": "hi."}, {"Speaker 1": "hello
\* there."}], the exact labels kept, and the script has total_lines = 2.
C2_ScenarioExactLabelsKept ==
    (pc = "returned" /\ script_arg = ScenarioInput) =>
        /\ podcast_script.script =
             << [speaker |-> Speaker2, dialogue |-> <<"h", "i", ".">>],
                [speaker |-> Speaker1, dialogue |-> <<"h", "e", "l", "l", "o", " ", "t", "h", "e", "r", "e", ".">>] >>
        /\ podcast_script.total_lines = 2

\* C2 happens: the script of the scenario's candidate was returned.
C2_Witness == pc = "returned" /\ script_arg = ScenarioInput

\* C3: a kept turn whose input label is exactly Speaker 1 or Speaker 2
\* keeps that label whatever the cursor, and the cursor has flipped once per
\* kept turn.
C3_ExactLabelPassthrough ==
    /\ Len(cleaned_script) = Len(Survivors)
    /\ \A j \in 1..Len(cleaned_script) :
          (j <= Len(Survivors) /\ Survivors[j].speaker \in {Speaker1, Speaker2})
              => cleaned_script[j].speaker = Survivors[j].speaker
    /\ expected_speaker = AlternatingSpeaker(Len(cleaned_script) + 1)

\* C3 happens: two consecutive well-formed Speaker 1 turns were both
\* returned as Speaker 1.
C3_Witness ==
    /\ pc = "validated"
    /\ Len(script_arg) >= 2
    /\ script_arg[1].speaker = Speaker1 /\ Survives(script_arg[1])
    /\ script_arg[2].speaker = Speaker1 /\ Survives(script_arg[2])
    /\ cleaned_script[1].speaker = Speaker1
    /\ cleaned_script[2].speaker = Speaker1

\* C4: every turn the validator keeps is one speaker/dialogue pair, its
\* speaker exactly Speaker 1 or Speaker 2, its dialogue non-empty and
\* trimmed; the kept turns are as many as the records that are well formed
\* and not empty once trimmed, so an empty record never appears; the script
\* returned holds these turns.
C4_TurnInvariant ==
    /\ \A j \in 1..Len(cleaned_script) :
          /\ DOMAIN cleaned_script[j] = {"speaker", "dialogue"}
          /\ cleaned_script[j].speaker \in {Speaker1, Speaker2}
          /\ cleaned_script[j].dialogue # <<>>
          /\ Strip(cleaned_script[j].dialogue) = cleaned_script[j].dialogue
    /\ Len(cleaned_script) =
         Len(Consumed) - Len(SelectSeq(Consumed, LAMBDA it : ~WellFormed(it)))
                       - Len(SelectSeq(Consumed, EmptyAfterTrim))
                       - Len(SelectSeq(Consumed, LAMBDA it : WellFormed(it)
                                                     /\ it.dtype # "str"))
    /\ pc = "returned" => podcast_script.script = cleaned_script

\* C4 happens: a script was returned from a candidate holding a record that
\* is empty once trimmed and a record whose dialogue had to be trimmed.
C4_Witness ==
    /\ pc = "returned"
    /\ \E k \in 1..Len(script_arg) :
          EmptyAfterTrim(script_arg[k]) /\ script_arg[k].dialogue # <<>>
    /\ \E k \in 1..Len(script_arg) :
          Survives(script_arg[k])
          /\ Strip(script_arg[k].dialogue) # script_arg[k].dialogue

\* C5: the dialogue of every kept turn ends in '.', '!' or '?': it is the
\* trimmed input when that ends in one of these marks, and the trimmed
\* input followed by one '.' otherwise.
C5_Punctuation ==
    \A j \in 1..Len(cleaned_script) :
        /\ cleaned_script[j].dialogue[Len(cleaned_script[j].dialogue)]
              \in {".", "!", "?"}
        /\ j <= Len(Survivors) =>
              LET trimmed == Strip(Survivors[j].dialogue)
              IN  IF trimmed[Len(trimmed)] \in {".", "!", "?"}
                  THEN cleaned_script[j].dialogue = trimmed
                  ELSE cleaned_script[j].dialogue = trimmed \o <<".">>

\* C5 happens: the validator returned a turn whose dialogue it left as it
\* was and a turn to which it appended a '.'.
C5_Witness ==
    /\ pc = "validated"
    /\ \E j \in 1..Len(cleaned_script) :
          cleaned_script[j].dialogue = Strip(Survivors[j].dialogue)
    /\ \E j \in 1..Len(cleaned_script) :
          cleaned_script[j].dialogue = Strip(Survivors[j].dialogue) \o <<".">>

-----------------------------------------------------------------------------
(* Properties of the response parser.                                      *)

\* generate_script_from_text has returned or raised.
Finished == pc \in {"returned", "failed"}

\* What the finished call gave its caller.
Outcome ==
    IF pc = "returned" THEN Returned(podcast_script.script) ELSE Failure(err)

\* The response decoded, at once or after fence-stripping.
Decoded ==
    \/ JsonLoads(response, payload) = "ok"
    \/ JsonLoads(StripFences(response), payload) = "ok"

\* The decoded value is an object whose 'script' key holds an array.
HoldsScriptArray ==
    payload.top = "object" /\ payload.has_script /\ payload.script_type = "list"

\* The turns of the decoded script array that survive normalization.
ValidTurns == SelectSeq(payload.script, Survives)

\* Every element of the decoded script array is dropped or yields a turn.
NormalizationCompletes ==
    \A k \in 1..Len(payload.script) :
        WellFormed(payload.script[k]) => payload.script[k].dtype = "str"

\* C6: when fewer than 2 valid turns survive normalization of the decoded
\* script array, the call fails with the too-short error, whether the
\* response decoded directly or after fence-stripping; and no script of
\* fewer than 2 turns is ever returned.
C6_MinimumLength ==
    /\ (Finished /\ Decoded /\ HoldsScriptArray /\ NormalizationCompletes
        /\ Len(ValidTurns) < 2)
           => (pc = "failed" /\ err = ErrTooShort)
    /\ pc = "returned" => podcast_script.total_lines >= 2

\* The framings that wrap the document in one layer of fence markers.
SingleFence == {"json_fence", "plain_fence", "padded_json_fence"}

\* C7: for a document that decodes to an object with a script array,
\* parsing it wrapped in one layer of fence markers gives the outcome (the
\* same turns, or the same failure) of parsing it unwrapped.
C7_FenceRoundTrip ==
    (/\ Finished
     /\ HoldsScriptArray
     /\ response \in {Frame(f, DocText(payload)) : f \in SingleFence})
        => Outcome = ParseOutcome(DocText(payload), payload)

\* The two errors that report a response not decodable as the expected
\* structure.
MalformedResponse == {ErrInvalidFormat, ErrCouldNotParse}

\* C8: parsing fails with the malformed-response error exactly when the
\* direct decode and the fence-stripped retry both fail or the decoded
\* value lacks a 'script' key holding a sequence; in such a case no turn
\* list is returned and no other error is raised.
C8_ParserFailure ==
    Finished =>
        ((pc = "failed" /\ err \in MalformedResponse)
            <=> (~Decoded \/ ~HoldsScriptArray))

\* The stepwise run and the function agree on every finished call.
RunMatchesParseOutcome == Finished => Outcome = ParseOutcome(response, payload)

-----------------------------------------------------------------------------
(* Properties of the synthesis loop and the assembler.                     *)

\* The names of the files in the output directory.
FileNames == {f.name : f \in disk}

\* The samples held by the file called name.
FileData(name) == (CHOOSE f \in disk : f.name = name).data

\* The combined file has been written.
CombinedWritten == CombinedFilename \in FileNames

\* The buffer of segment k handed to the assembler.
SegmentAudio(k) == audio_segments[k].audio_data

\* The silence between two segments: the whole number of samples in 0.2
\* seconds, that is the p with 5p <= sample_rate < 5(p + 1).
SilenceLength ==
    CHOOSE p \in 0..sample_rate : 5 * p <= sample_rate /\ sample_rate < 5 * (p + 1)

\* Where segment k starts in segment[1] ++ silence ++ ... ++ segment[n]:
\* the number of samples before it.
RECURSIVE SegmentStart(_)
SegmentStart(k) ==
    IF k = 1 THEN 0
    ELSE SegmentStart(k - 1) + Len(SegmentAudio(k - 1)) + SilenceLength

\* C9: the combined buffer written is segment[1], silence, segment[2], ...,
\* segment[n] in the order of the segments: each segment stands at its
\* place, the n-1 gaps between consecutive segments hold SilenceLength zero
\* samples each (4800 at the default rate of 24000), nothing leads or
\* trails, and one segment alone is the whole buffer.
C9_ConcatenationOrder ==
    /\ PauseSamples(DefaultSampleRate) = 4800
    /\ CombinedWritten =>
         LET final == FileData(CombinedFilename)
             n     == Len(audio_segments)
         IN  /\ n >= 1
             /\ Len(final) = SegmentStart(n) + Len(SegmentAudio(n))
             /\ \A k \in 1..n :
                   SubSeq(final, SegmentStart(k) + 1,
                          SegmentStart(k) + Len(SegmentAudio(k))) = SegmentAudio(k)
             /\ \A k \in 1..(n - 1) :
                   \A m \in (SegmentStart(k) + Len(SegmentAudio(k)) + 1)
                            ..SegmentStart(k + 1) :
                       m <= Len(final) /\ final[m] = 0
             /\ n = 1 => final = SegmentAudio(1)

\* C9 happens: a combined file of three segments was written.
C9_Witness ==
    /\ tts_pc = "returned"
    /\ CombinedWritten
    /\ Len(audio_segments) = 3

\* The turns (1-based positions) attempted so far whose synthesis and
\* segment write both succeeded, and those for which one of them failed.
Succeeded == {k \in 1..Len(attempts) : attempts[k].outcome = "ok"}

Failed == {k \in 1..Len(attempts) : attempts[k].outcome # "ok"}

\* The successful turns in script order.
RECURSIVE Ascending(_)
Ascending(S) ==
    IF S = {} THEN <<>>
    ELSE LET least == CHOOSE x \in S : \A y \in S : x <= y
         IN  <<least>> \o Ascending(S \ {least})

\* The segment file of the turn at 1-based position k.
TurnFile(k) == SegmentFilename(k - 1, tts_script[k].speaker)

AudioFinished == tts_pc \in {"returned", "raised"}

\* The positions of output_files that hold the combined file.
CombinedPositions ==
    {j \in 1..Len(output_files) : output_files[j] = CombinedFilename}

\* C11: when synthesis fails for every turn the call returns an empty list
\* without raising and without a combined file (the assembler is not
\* called); and the list returned holds complete_podcast.wav, once and as
\* its last element, exactly when combine_audio is set and at least one
\* segment succeeded.
C11_ZeroSuccess ==
    /\ (AudioFinished /\ Succeeded = {}) =>
          /\ tts_pc = "returned"
          /\ tts_err = NoExc
          /\ output_files = <<>>
          /\ ~CombinedWritten
    /\ tts_pc = "returned" =>
          /\ (CombinedPositions # {}) <=> (combine_audio /\ Succeeded # {})
          /\ CombinedPositions \subseteq {Len(output_files)}

\* C11 happens: the call returned after every one of at least two turns
\* failed, with combine_audio set.
C11_Witness ==
    /\ tts_pc = "returned"
    /\ combine_audio
    /\ Len(tts_script) >= 2
    /\ Succeeded = {}
    /\ \E k \in Failed : attempts[k].outcome = "synthesis_failed"

\* C12: when the assembly (concatenation or the write of the combined
\* file) fails, the call raises the error instead of returning, and every
\* segment file written before is still in the directory with its samples.
C12_AssemblyFailure ==
    tts_pc = "raised" =>
        /\ tts_err = "AssemblyFailure"
        /\ Succeeded # {}
        /\ \A k \in Succeeded :
              /\ TurnFile(k) \in FileNames
              /\ FileData(TurnFile(k)) = attempts[k].audio

\* C12 happens: the assembly failed after two segment files were written.
C12_Witness ==
    /\ tts_pc = "raised"
    /\ Cardinality(Succeeded) >= 2

-----------------------------------------------------------------------------
\* Text pre-cleaning (text_to_speech.py, _clean_text_for_tts).

\* The longest text handed to _clean_text_for_tts.
MaxTextLen == 4

\* str.replace: the occurrences of old are found from left to right without
\* overlap, in one pass; the text put in is not searched again.
RECURSIVE Replace(_, _, _)
Replace(s, old, new) ==
    IF Len(s) < Len(old) THEN s
    ELSE IF StartsWith(s, old)
         THEN new \o Replace(SubSeq(s, Len(old) + 1, Len(s)), old, new)
         ELSE <<s[1]>> \o Replace(Tail(s), old, new)

\* Lines 168-178.
CleanTextForTts(text) ==
    LET stripped == Strip(text)
        dots     == Replace(stripped, <<".", ".", ".">>, <<".">>)
        bangs    == Replace(dots, <<"!", "!">>, <<"!">>)
        marks    == Replace(bangs, <<"?", "?">>, <<"?">>)
    IN IF EndsWithTerminal(marks) THEN marks ELSE marks \o <<".">>

\* The characters of the texts: a blank, a letter and the three marks the
\* function treats.
TextChars == {" ", "a", ".", "!", "?"}

\* A call of _clean_text_for_tts with any text of up to MaxTextLen characters.
InitClean ==
    /\ response = <<>>
    /\ payload = Json("object", TRUE, "list", <<>>)
    /\ pc = "returned"
    /\ path = "direct"
    /\ script_arg = <<>>
    /\ idx = 0
    /\ cleaned_script = <<>>
    /\ expected_speaker = Speaker1
    /\ err = NoExc
    /\ podcast_script = MakePodcastScript(<<>>)
    /\ TtsIdle
    /\ tts_text \in SeqsUpTo(TextChars, MaxTextLen)
    /\ clean_text = NotCleaned
    /\ ScrapeIdle
    /\ PipeIdle

\* Line 154: the function is applied to the text of the turn.
CleanText ==
    /\ clean_text = NotCleaned
    /\ clean_text' = CleanTextForTts(tts_text)
    /\ UNCHANGED <<tts_text, genVars, ttsVars, scrapeVars, pipeVars>>

NextClean == CleanText

SpecClean == InitClean /\ [][NextClean]_vars

\* C13: the result of _clean_text_for_tts holds no "...", no "!!" and no
\* "??", is trimmed and ends in ".", "!" or "?".
C13_CollapsesRuns ==
    clean_text # NotCleaned =>
        /\ ~Contains(<<".", ".", ".">>, clean_text)
        /\ ~Contains(<<"!", "!">>, clean_text)
        /\ ~Contains(<<"?", "?">>, clean_text)
        /\ Strip(clean_text) = clean_text
        /\ EndsWithTerminal(clean_text)

\* What does hold of every result: it is trimmed and ends in a terminal mark.
C13_TrimmedAndTerminated ==
    clean_text # NotCleaned =>
        /\ Strip(clean_text) = clean_text
        /\ EndsWithTerminal(clean_text)

-----------------------------------------------------------------------------
\* Content source (web_scraper.py, scrape_url) and its caller (app.py,
\* add_url_source).

\* The longest URL typed in.
MaxUrlLen == 5

\* The position of the first c in s, 0 when there is none (str.find + 1).
Find(s, c) ==
    IF \E k \in 1..Len(s) : s[k] = c
    THEN CHOOSE k \in 1..Len(s) : s[k] = c /\ \A j \in 1..(k - 1) : s[j] # c
    ELSE 0

Letters == {LowerLetters[k] : k \in 1..26} \cup {UpperLetters[k] : k \in 1..26}

\* urllib.parse.scheme_chars
SchemeChars == Letters \cup {DigitChars[k] : k \in 1..10} \cup {"+", "-", "."}

\* urlsplit, the scheme: the text before the first colon when it starts
\* with a letter and holds scheme characters only.
HasScheme(u) ==
    LET c == Find(u, ":")
    IN /\ c > 1
       /\ u[1] \in Letters
       /\ \A k \in 1..(c - 1) : u[k] \in SchemeChars

UrlScheme(u) == IF HasScheme(u) THEN Lower(SubSeq(u, 1, Find(u, ":") - 1)) ELSE <<>>

AfterScheme(u) ==
    IF HasScheme(u) THEN SubSeq(u, Find(u, ":") + 1, Len(u)) ELSE u

\* urlsplit, the network location: what follows a leading "//" up to the
\* next "/", "?" or "#".
RECURSIVE UpToDelimiter(_)
UpToDelimiter(s) ==
    IF s = <<>> \/ Head(s) \in {"/", "?", "#"} THEN <<>>
    ELSE <<Head(s)>> \o UpToDelimiter(Tail(s))

UrlNetloc(u) ==
    LET rest == AfterScheme(u)
    IN IF StartsWith(rest, <<"/", "/">>)
       THEN UpToDelimiter(SubSeq(rest, 3, Len(rest)))
       ELSE <<>>

\* _is_valid_url (lines 65-70): the empty string is false in all([...]).
IsValidUrl(u) == UrlScheme(u) # <<>> /\ UrlNetloc(u) # <<>>

\* len(content.split()): the number of maximal runs without whitespace.
WordCount(s) ==
    Cardinality({k \in 1..Len(s) :
                    /\ s[k] \notin Whitespace
                    /\ (k = 1 \/ s[k - 1] \in Whitespace)})

\* result.markdown or result.metadata_dict being None.
None == <<"<", "N", "o", "n", "e", ">">>

\* What self.app.scrape does (line 36): it raises, or it answers with a
\* markdown text and a metadata dictionary, either of which may be None.
Answer(raises, markdown, metadata_title) ==
    [raises |-> raises, markdown |-> markdown, metadata_title |-> metadata_title]

Markdowns == {None, <<>>, <<" ">>, <<"a", " ", "b">>}

MetadataTitles == {None, <<>>, <<"T">>}

ScrapeAnswers ==
    {Answer(TRUE, None, None)}
        \cup {Answer(FALSE, m, mt) : m \in Markdowns, mt \in MetadataTitles}

\* Lines 38-43 raise inside the try block: metadata_dict.get on None, or
\* len(content) on None.
AnswerFails(a) == a.raises \/ a.markdown = None \/ a.metadata_title = None

WebPagePrefix == <<"Web Page - ">>

ErrorPrefix == <<"Error - ">>

\* Lines 30-63: the dictionary returned for a URL that passed line 25.
ScrapeResult(u, a) ==
    IF AnswerFails(a)
    THEN [success |-> FALSE, content |-> <<>>,
          title |-> ErrorPrefix \o UrlNetloc(u),
          word_count |-> 0, has_error |-> TRUE]
    ELSE [success |-> TRUE, content |-> a.markdown,
          title |-> IF a.metadata_title # <<>> THEN a.metadata_title
                    ELSE WebPagePrefix \o UrlNetloc(u),
          word_count |-> IF a.markdown # <<>> THEN WordCount(a.markdown) ELSE 0,
          has_error |-> FALSE]

\* Line 26: the message of the ValueError raised for a URL without a scheme
\* or without a network location.
ErrInvalidUrl == "Invalid URL format"

\* The characters of the URLs: a letter, a digit and the two separators.
UrlChars == {"h", "1", ":", "/"}

\* A call of add_url_source with any URL of up to MaxUrlLen characters,
\* with or without a web scraper in the session.
InitScrape ==
    /\ response = <<>>
    /\ payload = Json("object", TRUE, "list", <<>>)
    /\ pc = "returned"
    /\ path = "direct"
    /\ script_arg = <<>>
    /\ idx = 0
    /\ cleaned_script = <<>>
    /\ expected_speaker = Speaker1
    /\ err = NoExc
    /\ podcast_script = MakePodcastScript(<<>>)
    /\ TtsIdle
    /\ CleanIdle
    /\ web_scraper \in BOOLEAN
    /\ url \in SeqsUpTo(UrlChars, MaxUrlLen)
    /\ scrape_pc = "start"
    /\ scrape_result = NoResult
    /\ scrape_err = NoExc
    /\ sources = <<>>
    /\ PipeIdle

\* app.py lines 151-153: without a scraper the handler reports and returns.
NoScraper ==
    /\ scrape_pc = "start"
    /\ ~web_scraper
    /\ scrape_pc' = "done"
    /\ UNCHANGED <<web_scraper, url, scrape_result, scrape_err, sources>>
    /\ UNCHANGED <<genVars, ttsVars, cleanVars, pipeVars>>

\* app.py line 157 with scrape_url (web_scraper.py lines 18-63): an invalid
\* URL raises at line 26, before the try block; otherwise the call returns
\* a dictionary.
ScrapeUrl ==
    /\ scrape_pc = "start"
    /\ web_scraper
    /\ IF ~IsValidUrl(url)
       THEN /\ scrape_pc' = "scrape_raised"
            /\ scrape_err' = ErrInvalidUrl
            /\ UNCHANGED scrape_result
       ELSE \E a \in ScrapeAnswers :
                /\ scrape_pc' = "scrape_returned"
                /\ scrape_result' = ScrapeResult(url, a)
                /\ UNCHANGED scrape_err
    /\ UNCHANGED <<web_scraper, url, sources>>
    /\ UNCHANGED <<genVars, ttsVars, cleanVars, pipeVars>>

\* app.py lines 160-168: the entry added to st.session_state.sources.
SourceInfo(u, result) ==
    [name |-> result.title, url |-> u, type |-> "Website",
     content |-> result.content, word_count |-> result.word_count]

\* app.py lines 159-171: the result is added as a source when it succeeded
\* with a content that is not empty; otherwise an error is shown.
HandleResult ==
    /\ scrape_pc = "scrape_returned"
    /\ scrape_pc' = "done"
    /\ IF scrape_result.success /\ scrape_result.content # <<>>
       THEN sources' = Append(sources, SourceInfo(url, scrape_result))
       ELSE UNCHANGED sources
    /\ UNCHANGED <<web_scraper, url, scrape_result, scrape_err>>
    /\ UNCHANGED <<genVars, ttsVars, cleanVars, pipeVars>>

\* app.py lines 173-175: the handler of the caller shows the exception.
HandleException ==
    /\ scrape_pc = "scrape_raised"
    /\ scrape_pc' = "done"
    /\ UNCHANGED <<web_scraper, url, scrape_result, scrape_err, sources>>
    /\ UNCHANGED <<genVars, ttsVars, cleanVars, pipeVars>>

NextScrape == NoScraper \/ ScrapeUrl \/ HandleResult \/ HandleException

SpecScrape == InitScrape /\ [][NextScrape]_vars

\* C14: scrape_url never raises: for every URL, also one of an invalid
\* format, and for every failure of the underlying scrape it returns a
\* result with success false and an error message; and the caller adds a
\* source only when success is true.
C14_NoExceptionAcrossBoundary ==
    /\ scrape_err = NoExc
    /\ scrape_pc # "scrape_raised"
    /\ (scrape_pc = "scrape_returned" /\ ~scrape_result.success) =>
          scrape_result.has_error
    /\ sources # <<>> => scrape_result.success

\* What does hold: a failure inside the try block comes back as a result
\* with success false and an error message, and a source is added only for
\* a result with success true and a content.
C14_FailuresInsideTry ==
    /\ \A a \in ScrapeAnswers :
          AnswerFails(a) =>
              /\ ~ScrapeResult(url, a).success
              /\ ScrapeResult(url, a).has_error
    /\ sources # <<>> =>
          /\ scrape_result.success
          /\ scrape_result.content # <<>>
          /\ sources = <<SourceInfo(url, scrape_result)>>

-----------------------------------------------------------------------------
\* The pipeline (app.py, generate_podcast): script generation, then audio
\* generation when a TTS generator is available.

\* The records of the responses the pipeline is run on: a turn with an
\* exact label, one with another label, one whose dialogue is blank and
\* one whose dialogue is a number.
PipelineItems ==
    { Turn(Speaker1, <<"h", "i">>),
      Turn(<<"H", "o", "s", "t">>, <<" ", "o", "k", "!", " ">>),
      Turn(<<"H", "o", "s", "t">>, <<" ", "\n">>),
      NumberTurn }

PipelinePayloads ==
    {Json("object", TRUE, "list", s) : s \in SeqsUpTo(PipelineItems, MaxItems)}
        \cup {Json("object", FALSE, "none", <<>>), Json("list", FALSE, "none", <<>>)}

PipelineFramings == {"bare", "json_fence", "prose"}

\* The source selected in the page.
SelectedSource ==
    [name |-> <<"T">>, url |-> <<"h", ":", "/", "/", "h">>, type |-> "Website",
     content |-> <<"a", " ", "b">>, word_count |-> 2]

\* The call of generate_podcast, in a session with or without a script
\* generator, a TTS generator and the selected source.
InitPipeline ==
    /\ payload \in PipelinePayloads
    /\ response \in {Frame(f, DocText(payload)) : f \in PipelineFramings}
    /\ pc = "not_called"
    /\ path = "direct"
    /\ script_arg = <<>>
    /\ idx = 0
    /\ cleaned_script = <<>>
    /\ expected_speaker = Speaker1
    /\ err = NoExc
    /\ podcast_script = NoScript
    /\ TtsIdle
    /\ CleanIdle
    /\ web_scraper = FALSE
    /\ url = <<>>
    /\ scrape_pc = "idle"
    /\ scrape_result = NoResult
    /\ scrape_err = NoExc
    /\ sources \in {<<>>, <<SelectedSource>>}
    /\ script_generator \in BOOLEAN
    /\ tts_generator \in BOOLEAN
    /\ pipe_pc = "entry"

\* app.py lines 268-280: without a script generator, or without the source
\* selected, the handler reports and returns.
NotAvailable ==
    /\ pipe_pc = "entry"
    /\ ~script_generator \/ sources = <<>>
    /\ pipe_pc' = "returned_early"
    /\ UNCHANGED <<script_generator, tts_generator>>
    /\ UNCHANGED <<genVars, ttsVars, cleanVars, scrapeVars>>

\* app.py lines 282-289: generate_script_from_text is called.
CallScriptGenerator ==
    /\ pipe_pc = "entry"
    /\ script_generator
    /\ sources # <<>>
    /\ pipe_pc' = "script"
    /\ pc' = "start"
    /\ UNCHANGED <<response, payload, path, script_arg, idx, cleaned_script,
                   expected_speaker, err, podcast_script>>
    /\ UNCHANGED <<script_generator, tts_generator>>
    /\ UNCHANGED <<ttsVars, cleanVars, scrapeVars>>

ErrLlm == "LLMError"

\* script_generator.py line 128 under the handler of lines 154-156: the
\* call of the model raises and the exception is raised again.
LlmCallFails ==
    /\ pc = "start"
    /\ Raise("direct", ErrLlm)
    /\ UNCHANGED <<response, payload, path, script_arg, idx, cleaned_script,
                   expected_speaker, podcast_script>>
    /\ UNCHANGED notGenVars

\* app.py lines 354-356: an exception of generate_script_from_text is
\* caught by the outer handler, which reports it; the handler then returns.
ScriptFailed ==
    /\ pipe_pc = "script"
    /\ pc = "failed"
    /\ pipe_pc' = "generation_failed"
    /\ UNCHANGED <<script_generator, tts_generator>>
    /\ UNCHANGED <<genVars, ttsVars, cleanVars, scrapeVars>>

\* Line 293 reached with generate_script_from_text having raised as well.
ScriptReady_OrFailed == pc \in {"returned", "failed"}

\* app.py lines 284-293: line 293 is reached when generate_script_from_text
\* has returned.
ScriptReady == pc = "returned"

\* app.py lines 293-302: generate_podcast_audio is called on the script,
\* with combine_audio set, by a generator built with the default sample rate
\* (line 119).
StartAudio ==
    /\ pipe_pc = "script"
    /\ ScriptReady
    /\ tts_generator
    /\ pipe_pc' = "audio"
    /\ tts_pc' = "loop"
    /\ tts_script' = podcast_script.script
    /\ sample_rate' = DefaultSampleRate
    /\ combine_audio' = TRUE
    /\ UNCHANGED <<i, attempts, audio_segments, output_files, disk, tts_err>>
    /\ UNCHANGED <<script_generator, tts_generator>>
    /\ UNCHANGED <<genVars, cleanVars, scrapeVars>>

\* app.py lines 324-352: without a TTS generator a warning is shown, then
\* the script.
ShowScriptOnly ==
    /\ pipe_pc = "script"
    /\ ScriptReady
    /\ ~tts_generator
    /\ pipe_pc' = "shown"
    /\ UNCHANGED <<script_generator, tts_generator>>
    /\ UNCHANGED <<genVars, ttsVars, cleanVars, scrapeVars>>

\* app.py lines 304-323 and 327-352: the audio files are shown, or the
\* inner handler reports the failure of the audio generation; then the
\* script is shown.
ShowAudioAndScript ==
    /\ pipe_pc = "audio"
    /\ tts_pc \in {"returned", "raised"}
    /\ pipe_pc' = "shown"
    /\ UNCHANGED <<script_generator, tts_generator>>
    /\ UNCHANGED <<genVars, ttsVars, cleanVars, scrapeVars>>

NextPipeline ==
    \/ NotAvailable
    \/ CallScriptGenerator
    \/ LlmCallFails
    \/ Decode
    \/ Fallback
    \/ ValidateStep
    \/ ValidateReturn
    \/ BuildScript
    \/ ScriptFailed
    \/ StartAudio
    \/ ShowScriptOnly
    \/ SynthesizeTurn
    \/ FinishAudio
    \/ ShowAudioAndScript

SpecPipeline == InitPipeline /\ [][NextPipeline]_vars

\* C15: in the pipeline of generate_podcast, while script generation has
\* not returned a script (it is running, or it has failed with a malformed
\* response, a script too short or any other error) no synthesis has been
\* attempted and no audio file written; once audio generation has begun,
\* the script generator has returned a script of at least 2 turns and that
\* script is the one synthesized.
C15_AbortBeforeSynthesis ==
    /\ pc # "returned" =>
          /\ tts_pc = "idle"
          /\ attempts = <<>>
          /\ output_files = <<>>
          /\ disk = {}
    /\ pipe_pc = "generation_failed" => pc = "failed"
    /\ tts_pc # "idle" =>
          /\ pc = "returned"
          /\ podcast_script.total_lines >= MinTurns
          /\ Len(podcast_script.script) >= MinTurns
          /\ tts_script = podcast_script.script

\* C15 happens: script generation failed for a script too short, in a
\* session that has a TTS generator, and the handler has returned.
C15_Witness ==
    /\ pipe_pc = "generation_failed"
    /\ tts_generator
    /\ err = ErrTooShort
    /\ payload.script # <<>>

-----------------------------------------------------------------------------
\* Dropped records (script_generator.py, _validate_and_clean_script).

\* A record the validator skips: not exactly one key/value pair, or with a
\* dialogue that is empty once trimmed.
Dropped(item) == ~WellFormed(item) \/ EmptyAfterTrim(item)

NotDropped(item) == ~Dropped(item)

\* A sequence of records with the dropped ones removed.
WithoutDropped(script) == SelectSeq(script, NotDropped)

\* The validator has been entered.
ValidatorEntered == pc \in {"validate", "validated", "returned"} \/ idx > 0

\* C16: records that are not exactly one key/value pair, or whose dialogue
\* is empty after trimming, are skipped without failing the script and
\* without moving the expected_speaker cursor: after any number of
\* iterations the turns kept and the cursor are those the validator
\* computes on the consumed records with the dropped ones removed, and the
\* finished call gives what the validator gives on the script argument with
\* its dropped records removed.
C16_DroppedInvisible ==
    /\ ValidatorEntered =>
          LET kept == WithoutDropped(Consumed)
              st   == ValidateLoop(kept, Len(kept))
          IN  /\ cleaned_script = st.cleaned
              /\ expected_speaker = st.expected
    /\ (Finished /\ Decoded /\ HoldsScriptArray) =>
          Outcome = ValidateOutcome(path, WithoutDropped(payload.script))

\* C16 happens: a script was returned whose argument held a dropped record
\* before a turn whose label the cursor decides, and a record that is not
\* one pair, so that the argument and the argument without its dropped
\* records differ.
C16_Witness ==
    /\ pc = "returned"
    /\ \E j, k \in 1..Len(script_arg) :
          /\ j < k
          /\ Dropped(script_arg[j])
          /\ Survives(script_arg[k])
          /\ Ambiguous(script_arg[k].speaker)
    /\ \E j \in 1..Len(script_arg) : ~WellFormed(script_arg[j])
    /\ WithoutDropped(script_arg) # script_arg

-----------------------------------------------------------------------------
\* Synthesis ordering (text_to_speech.py, generate_podcast_audio).

IsDigit(c) == \E d \in 0..9 : DigitChars[d + 1] = c

DigitValue(c) == CHOOSE d \in 0..9 : DigitChars[d + 1] = c

\* name is "segment_" followed by three digits and "_".
HasSegmentPrefix(name) ==
    /\ Len(name) >= 12
    /\ SubSeq(name, 1, 8) = <<"s", "e", "g", "m", "e", "n", "t", "_">>
    /\ \A k \in 9..11 : IsDigit(name[k])
    /\ name[12] = "_"

\* The number the three digits of a segment file name denote.
SegmentIndex(name) ==
    100 * DigitValue(name[9]) + 10 * DigitValue(name[10]) + DigitValue(name[11])

\* The turns of the script.
Positions == 1..Len(tts_script)

\* The files of the directory and of the returned list are named after
\* the attempted turns only, each after its 1-based position, and the
\* combined file is there only when every turn has been attempted.
OrderingState ==
    /\ i = Len(attempts)
    /\ i <= Len(tts_script)
    /\ \A k \in Positions :
          /\ HasSegmentPrefix(TurnFile(k))
          /\ SegmentIndex(TurnFile(k)) = k
          /\ TurnFile(k) # CombinedFilename
          /\ \A j \in Positions : j # k => TurnFile(j) # TurnFile(k)
          /\ TurnFile(k) \in FileNames <=> k \in Succeeded
    /\ \A name \in FileNames \ {CombinedFilename} :
          /\ HasSegmentPrefix(name)
          /\ SegmentIndex(name) \in 1..i
    /\ \A a, b \in 1..Len(output_files) :
          (a < b /\ output_files[b] # CombinedFilename) =>
              /\ HasSegmentPrefix(output_files[a])
              /\ HasSegmentPrefix(output_files[b])
              /\ SegmentIndex(output_files[a]) < SegmentIndex(output_files[b])
    /\ CombinedWritten => (i = Len(tts_script) /\ tts_pc = "returned")

\* A step attempts the next turn of the script and no other: it writes at
\* most the segment file of that turn, and a step that writes the combined
\* file attempts none.
OrderingStep ==
    /\ i' # i =>
          /\ i' = i + 1
          /\ Len(attempts') = Len(attempts) + 1
          /\ FileNames' \ FileNames \subseteq {TurnFile(i + 1)}
          /\ attempts'[i + 1].outcome = "ok" => TurnFile(i + 1) \in FileNames'
    /\ (CombinedWritten' /\ ~CombinedWritten) =>
          (i' = i /\ i = Len(tts_script))

\* C17: the turns are attempted one at a time in script order; the segment
\* file of turn k, named after its 1-based position k in three digits (so
\* the segment names differ from each other and from complete_podcast.wav),
\* is written in the step that synthesizes turn k, before turn k+1 is
\* attempted; and the combined file is written only after every turn has
\* been attempted.
C17_SynthesisOrdering == []OrderingState /\ [][OrderingStep]_vars

\* C17 happens: in a script of three turns the first two were synthesized
\* and their files written, and the third has not been attempted yet.
C17_Witness ==
    /\ tts_pc = "loop"
    /\ Len(tts_script) = 3
    /\ i = 2
    /\ Succeeded = {1, 2}
    /\ TurnFile(1) \in FileNames
    /\ TurnFile(2) \in FileNames
    /\ TurnFile(3) \notin FileNames

=============================================================================
